---- MODULE Spec2Model ----
(***************************************************************************)
(* A model of quizx/src/simplify.rs: the two generic rewrite drivers       *)
(* (vertex_simp, edge_simp), the named passes, the composite strategies    *)
(* and fuse_gadgets, over a small typed graph with phases.                 *)
(***************************************************************************)
EXTENDS Integers, Sequences, FiniteSets, TLC

VARIABLES
    g,          \* the diagram: [verts, vtype, phase, edges]
    status,     \* "idle" | "running" | "panicked"
    stack,      \* frames of the composite strategies being executed
    drv,        \* the locals of the running driver (vertex_simp / edge_simp)
    ret,        \* the value returned by the last call that returned
    hist        \* history of the current top-level call (observation only)

vars == <<g, status, stack, drv, ret, hist>>

-----------------------------------------------------------------------------
(* Bounds of the model *)

\* handle capacity of the diagram in the driver runs
MaxV == 3
\* handle capacity of the diagram in the fuse_gadgets runs
MaxVFuse == 5
\* most edges of an initial diagram in the driver runs
MaxEdges == 2
\* most edges of an initial diagram in the fuse_gadgets runs
MaxEdgesFuse == 4
\* handle capacity of the diagram in the runs of the passes and composites
MaxVComp == 4
\* most edges of an initial diagram in the runs of the passes and composites
MaxEdgesComp == 2
\* most top-level calls in a row on one diagram
MaxCalls == 2
\* the round counter of the history saturates here
MaxRounds == 6

-----------------------------------------------------------------------------
(* The diagram (GraphLike) *)

\* phases are multiples of 1/4 of a half-turn, kept modulo 2 half-turns
PhaseMod == 8

Min(S) == CHOOSE x \in S : \A y \in S : x <= y

RECURSIVE SortedSeq(_)
SortedSeq(S) ==
    IF S = {} THEN <<>>
    ELSE LET m == Min(S) IN <<m>> \o SortedSeq(S \ {m})

EmptyGraph(n) ==
    [verts |-> {}, vtype |-> [v \in 1..n |-> "Z"],
     phase |-> [v \in 1..n |-> 0], edges |-> {}]

Capacity(G) == DOMAIN G.vtype

num_vertices(G) == Cardinality(G.verts)

contains_vertex(G, v) == v \in G.verts

vertex_type(G, v) == G.vtype[v]

incident_edges(G, v) ==
    {<<e[2], e[3]>> : e \in {f \in G.edges : f[1] = v}}
    \cup {<<e[1], e[3]>> : e \in {f \in G.edges : f[2] = v}}

neighbors(G, v) == {p[1] : p \in incident_edges(G, v)}

degree(G, v) == Cardinality(incident_edges(G, v))

\* the kind of the edge between s and t, or "none"
edge_type_opt(G, s, t) ==
    LET lo == IF s < t THEN s ELSE t
        hi == IF s < t THEN t ELSE s
    IN  IF <<lo, hi, "N">> \in G.edges THEN "N"
        ELSE IF <<lo, hi, "H">> \in G.edges THEN "H"
        ELSE "none"

\* all vertex handles, in the order of the storage
vertex_vec(G) == SortedSeq(G.verts)

EdgeKey(e, n) == e[1] * (n + 1) + e[2]

RECURSIVE SortedEdges(_, _)
SortedEdges(E, n) ==
    IF E = {} THEN <<>>
    ELSE LET m == CHOOSE e \in E : \A f \in E : EdgeKey(e, n) <= EdgeKey(f, n)
         IN  <<m>> \o SortedEdges(E \ {m}, n)

\* all edges as (source, target, kind) triples, in the order of the storage
edge_vec(G) == SortedEdges(G.edges, Cardinality(Capacity(G)))

remove_vertex(G, v) ==
    [G EXCEPT !.verts = @ \ {v},
              !.vtype[v] = "Z",
              !.phase[v] = 0,
              !.edges = {e \in @ : e[1] # v /\ e[2] # v}]

add_to_phase(G, v, p) ==
    [G EXCEPT !.phase[v] = (@ + p) % PhaseMod]

remove_edge(G, s, t) ==
    [G EXCEPT !.edges = {e \in @ : ~({e[1], e[2]} = {s, t})}]

add_edge_with_type(G, s, t, et) ==
    LET lo == IF s < t THEN s ELSE t
        hi == IF s < t THEN t ELSE s
    IN  [G EXCEPT !.edges = {e \in @ : ~({e[1], e[2]} = {s, t})}
                            \cup {<<lo, hi, et>>}]

\* add an edge and normalise a parallel pair between two Z spiders:
\* two Hadamard edges cancel, two Normal edges are one, a Normal and a
\* Hadamard edge leave the Normal edge and a half-turn on s
add_edge_smart(G, s, t, et) ==
    LET old == edge_type_opt(G, s, t) IN
    IF s = t THEN (IF et = "H" THEN add_to_phase(G, s, 4) ELSE G)
    ELSE IF old = "none" THEN add_edge_with_type(G, s, t, et)
    ELSE IF G.vtype[s] = "Z" /\ G.vtype[t] = "Z"
         THEN IF old = "H" /\ et = "H" THEN remove_edge(G, s, t)
              ELSE IF old = "N" /\ et = "N" THEN G
              ELSE add_to_phase(add_edge_with_type(G, s, t, "N"), s, 4)
    ELSE add_edge_with_type(G, s, t, et)

\* the lowest free handle of the diagram, or 0 when the storage is full
FreeHandle(G) ==
    IF Capacity(G) \ G.verts = {} THEN 0 ELSE Min(Capacity(G) \ G.verts)

add_vertex(G, ty) ==
    LET v == FreeHandle(G) IN
    [G EXCEPT !.verts = @ \cup {v}, !.vtype[v] = ty, !.phase[v] = 0]

ToggleKind(et) == IF et = "N" THEN "H" ELSE "N"

\* every X spider becomes a Z spider; each incident edge changes kind once
\* per X endpoint
x_to_z(G) ==
    LET isX(v) == v \in G.verts /\ G.vtype[v] = "X"
        flip(e) == IF isX(e[1]) # isX(e[2])
                   THEN <<e[1], e[2], ToggleKind(e[3])>> ELSE e
    IN  [G EXCEPT !.vtype = [v \in DOMAIN @ |-> IF isX(v) THEN "Z" ELSE @[v]],
                  !.edges = {flip(e) : e \in @}]

-----------------------------------------------------------------------------
(* The rule library: one (check, rewrite) pair per named rule *)

IsSpider(G, v) == G.vtype[v] \in {"Z", "X"}

IsPauli(p) == p \in {0, 4}

IsProperClifford(p) == p \in {2, 6}

\* v is a Z spider all of whose neighbours are Z spiders on Hadamard edges
IsInterior(G, v) ==
    /\ G.vtype[v] = "Z"
    /\ \A p \in incident_edges(G, v) : G.vtype[p[1]] = "Z" /\ p[2] = "H"

\* the neighbours of v are Z spiders on Hadamard edges or boundaries
IsBoundaryAdjacentOk(G, v) ==
    /\ G.vtype[v] = "Z"
    /\ \A p \in incident_edges(G, v) :
          \/ G.vtype[p[1]] = "Z" /\ p[2] = "H"
          \/ G.vtype[p[1]] = "B"

RECURSIVE FoldEdges(_, _, _)
\* add (smart) a Hadamard edge for every pair of the set P
FoldEdges(G, P, et) ==
    IF P = {} THEN G
    ELSE LET pr == CHOOSE q \in P : TRUE
         IN  FoldEdges(add_edge_smart(G, pr[1], pr[2], et), P \ {pr}, et)

RECURSIVE FoldPhase(_, _, _)
FoldPhase(G, S, p) ==
    IF S = {} THEN G
    ELSE LET v == CHOOSE x \in S : TRUE
         IN  FoldPhase(add_to_phase(G, v, p), S \ {v}, p)

RECURSIVE MoveEdges(_, _, _)
\* re-attach to s every (neighbour, kind) of the set P
MoveEdges(G, s, P) ==
    IF P = {} THEN G
    ELSE LET pr == CHOOSE q \in P : TRUE
         IN  MoveEdges(add_edge_smart(G, s, pr[1], pr[2]), s, P \ {pr})

check_remove_id(G, v) ==
    /\ IsSpider(G, v)
    /\ G.phase[v] = 0
    /\ degree(G, v) = 2

remove_id_unchecked(G, v) ==
    LET inc == incident_edges(G, v)
        a == CHOOSE p \in inc : \A q \in inc : p[1] <= q[1]
        b == CHOOSE p \in inc : p # a
        et == IF a[2] = b[2] THEN "N" ELSE "H"
    IN  add_edge_smart(remove_vertex(G, v), a[1], b[1], et)

check_local_comp(G, v) ==
    /\ IsInterior(G, v)
    /\ IsProperClifford(G.phase[v])

local_comp_unchecked(G, v) ==
    LET ns == neighbors(G, v)
        p == G.phase[v]
        pairs == {<<a, b>> \in ns \X ns : a < b}
    IN  FoldPhase(FoldEdges(remove_vertex(G, v), pairs, "H"),
                  ns, PhaseMod - p)

check_spider_fusion(G, s, t) ==
    /\ s # t
    /\ edge_type_opt(G, s, t) = "N"
    /\ IsSpider(G, s)
    /\ G.vtype[s] = G.vtype[t]

spider_fusion_unchecked(G, s, t) ==
    LET moved == {p \in incident_edges(G, t) : p[1] # s}
        G1 == add_to_phase(G, s, G.phase[t])
    IN  MoveEdges(remove_vertex(G1, t), s, moved)

PivotRewrite(G, s, t) ==
    LET ns == neighbors(G, s) \ {t}
        nt == neighbors(G, t) \ {s}
        zs == {v \in ns : G.vtype[v] = "Z"}
        zt == {v \in nt : G.vtype[v] = "Z"}
        only_s == zs \ zt
        only_t == zt \ zs
        both == zs \cap zt
        pairs == (only_s \X only_t) \cup (only_s \X both) \cup (only_t \X both)
        ps == G.phase[s]
        pt == G.phase[t]
        G1 == remove_vertex(remove_vertex(G, s), t)
        G2 == FoldEdges(G1, pairs, "H")
        G3 == FoldPhase(G2, only_s, pt)
        G4 == FoldPhase(G3, only_t, ps)
    IN  FoldPhase(G4, both, (ps + pt + 4) % PhaseMod)

check_pivot(G, s, t) ==
    /\ s # t
    /\ edge_type_opt(G, s, t) = "H"
    /\ IsInterior(G, s) /\ IsInterior(G, t)
    /\ IsPauli(G.phase[s]) /\ IsPauli(G.phase[t])

pivot_unchecked(G, s, t) == PivotRewrite(G, s, t)

check_gen_pivot_reduce(G, s, t) ==
    /\ s # t
    /\ edge_type_opt(G, s, t) = "H"
    /\ IsBoundaryAdjacentOk(G, s) /\ IsBoundaryAdjacentOk(G, t)
    /\ IsPauli(G.phase[s]) \/ IsPauli(G.phase[t])

gen_pivot_unchecked(G, s, t) == PivotRewrite(G, s, t)

-----------------------------------------------------------------------------
(* The function values a caller passes to the generic drivers.  Besides the *)
(* library rules the drivers are run with rules that delete nothing, that   *)
(* delete more than they matched, and that add a vertex.                    *)

LibVertexRules == {"remove_id", "local_comp"}

LibEdgeRules == {"spider_fusion", "pivot", "gen_pivot"}

VertexRules == LibVertexRules \cup {"clear_phase", "flip_phase", "del_nbr", "unfuse"}

EdgeRules == LibEdgeRules \cup {"kick", "cut_source", "subdivide"}

VCheck(rule, G, v) ==
    CASE rule = "remove_id"   -> check_remove_id(G, v)
      [] rule = "local_comp"  -> check_local_comp(G, v)
      [] rule = "clear_phase" -> G.phase[v] # 0
      [] rule = "flip_phase"  -> G.vtype[v] = "Z"
      [] rule = "del_nbr"     -> degree(G, v) >= 1
      [] rule = "unfuse"      -> G.phase[v] # 0 /\ FreeHandle(G) # 0

VRule(rule, G, v) ==
    CASE rule = "remove_id"   -> remove_id_unchecked(G, v)
      [] rule = "local_comp"  -> local_comp_unchecked(G, v)
      [] rule = "clear_phase" -> [G EXCEPT !.phase[v] = 0]
      [] rule = "flip_phase"  -> add_to_phase(G, v, 4)
      [] rule = "del_nbr"     ->
            remove_vertex(remove_vertex(G, v), Min(neighbors(G, v)))
      [] rule = "unfuse"      ->
            LET u == FreeHandle(G)
            IN  add_edge_with_type(
                    add_to_phase([add_vertex(G, "Z") EXCEPT !.phase[v] = 0],
                                 u, 0), v, u, "N")

ECheck(rule, G, s, t) ==
    CASE rule = "spider_fusion" -> check_spider_fusion(G, s, t)
      [] rule = "pivot"         -> check_pivot(G, s, t)
      [] rule = "gen_pivot"     -> check_gen_pivot_reduce(G, s, t)
      [] rule = "kick"          -> TRUE
      [] rule = "cut_source"    -> TRUE
      [] rule = "subdivide"     ->
            FreeHandle(G) # 0 /\ edge_type_opt(G, s, t) # "none"

ERule(rule, G, s, t) ==
    CASE rule = "spider_fusion" -> spider_fusion_unchecked(G, s, t)
      [] rule = "pivot"         -> pivot_unchecked(G, s, t)
      [] rule = "gen_pivot"     -> gen_pivot_unchecked(G, s, t)
      [] rule = "kick"          -> add_to_phase(G, s, 4)
      [] rule = "cut_source"    ->
            [G EXCEPT !.edges = {e \in @ : e[1] # s /\ e[2] # s}]
      [] rule = "subdivide"     ->
            LET u == FreeHandle(G)
                et == edge_type_opt(G, s, t)
                G1 == remove_edge(add_vertex(G, "Z"), s, t)
            IN  add_edge_with_type(add_edge_with_type(G1, s, u, "N"),
                                   u, t, et)

-----------------------------------------------------------------------------
(* Initial diagrams *)

Pairs(n) == {<<a, b>> \in (1..n) \X (1..n) : a < b}

\* the edges P, those of Nn Normal and the others Hadamard
Edges(P, Nn) == {<<e[1], e[2], IF e \in Nn THEN "N" ELSE "H">> : e \in P}

\* the diagram on the handles 1..k (capacity n) with the edges E; every
\* vertex is a zero-phase Z spider but the marked ones: marks maps handles
\* to a (kind, phase) pair
Diagram(n, k, E, marks) ==
    [verts |-> 1..k,
     vtype |-> [v \in 1..n |-> IF v \in DOMAIN marks THEN marks[v][1] ELSE "Z"],
     phase |-> [v \in 1..n |-> IF v \in DOMAIN marks THEN marks[v][2] ELSE 0],
     edges |-> E]

\* at most one marked vertex, the lowest or the highest handle
OneMark(k, choices) ==
    {<<>>} \cup UNION {[{v} -> choices] : v \in {1, k} \cap (1..k)}

-----------------------------------------------------------------------------
(* Control state *)

IdleDrv ==
    [pc |-> "idle", kind |-> "none", rule |-> "none", etype |-> "none",
     force |-> FALSE, got_match |-> FALSE, new_matches |-> FALSE,
     numv |-> 0, snap |-> <<>>,
     n0 |-> 0, rounds |-> 0,    \* observation: the vertex count at entry
                                \* and the rounds begun, saturating
     snap0 |-> <<>>,            \* observation: the snapshot of the round,
     seen |-> <<>>,             \* the handles vertex_simp has passed to
     hit |-> {}]                \* check in it, and those it has rewritten

\* what the current top-level call has done so far
NoHist(G) ==
    [op |-> "none", rule |-> "none", force |-> FALSE,
     calls |-> 0, g0 |-> G, n0 |-> num_vertices(G),
     invoked |-> FALSE,      \* a rewrite was invoked
     stale |-> FALSE,        \* check was handed a vertex that is not present
     badcheck |-> FALSE,     \* check was handed an edge triple that is not valid
     skipdead |-> FALSE,     \* a triple was skipped for a missing endpoint
     goneedge |-> FALSE,     \* check was handed a triple whose edge is gone
                             \* or has changed kind
     broke |-> FALSE,        \* a rewrite deleted more than it matched or added
     nodel |-> FALSE,        \* a rewrite deleted nothing
     rounds |-> 0,           \* rounds of the driver, saturating
     zeroround |-> FALSE,    \* the last finished round had no match
     flatround |-> FALSE,    \* a composite round made progress without
                             \* shrinking the diagram
     prev |-> "none",        \* the operation of the previous call
     prevret |-> FALSE]

StartHist(op, rule, force) ==
    [NoHist(g) EXCEPT !.op = op, !.rule = rule, !.force = force,
                      !.calls = hist.calls + 1,
                      !.prev = hist.op, !.prevret = ret]

Sat(n) == IF n < MaxRounds THEN n + 1 ELSE MaxRounds

-----------------------------------------------------------------------------
(* vertex_simp and edge_simp *)

\* lines 35-36 / 62-63: the locals at entry; the loop test passes
DriverEntry(kind, et, rule, force) ==
    [pc |-> "begin", kind |-> kind, rule |-> rule, etype |-> et,
     force |-> force, got_match |-> FALSE, new_matches |-> TRUE,
     numv |-> 0, snap |-> <<>>,
     n0 |-> num_vertices(g), rounds |-> 0,
     snap0 |-> <<>>, seen |-> <<>>, hit |-> {}]

\* the snapshot runs over every slot of the storage, free slots included
SnapshotAllSlots(kind, G) ==
    IF kind = "vertex" THEN SortedSeq(Capacity(G)) ELSE edge_vec(G)

\* line 41 / 68: g.vertex_vec() / g.edge_vec()
Snapshot(kind, G) ==
    IF kind = "vertex" THEN vertex_vec(G) ELSE edge_vec(G)

\* lines 39-41 / 66-68: the head of a round
RoundBegin ==
    /\ status = "running"
    /\ drv.pc = "begin"
    /\ drv' = [drv EXCEPT !.pc = "scan",
                          !.numv = num_vertices(g),
                          !.new_matches = FALSE,
                          !.snap = Snapshot(drv.kind, g),
                          !.rounds = Sat(@),
                          !.snap0 = Snapshot(drv.kind, g),
                          !.seen = <<>>, !.hit = {}]
    /\ hist' = [hist EXCEPT !.rounds = Sat(@)]
    /\ UNCHANGED <<g, status, stack, ret>>

\* what a rewrite did to the vertex set, given the handles it matched
Effect(G, G2, matched) ==
    [broke |-> ~(G2.verts \subseteq G.verts)
               \/ ~((G.verts \ G2.verts) \subseteq matched),
     nodel |-> G.verts \subseteq G2.verts]

\* the call ends in a fault: nothing is returned
Panic ==
    /\ status' = "panicked"
    /\ stack' = <<>>
    /\ drv' = IdleDrv

\* the loop passes over the handle after the next one
RestSkipsOne(snap) == IF Len(snap) >= 2 THEN Tail(Tail(snap)) ELSE <<>>

\* line 41: for v in ..: the loop goes on with the next handle
Rest(snap) == Tail(snap)

\* lines 41-47: one handle of the snapshot
ScanVertex ==
    /\ status = "running"
    /\ drv.pc = "scan" /\ drv.kind = "vertex"
    /\ drv.snap # <<>>
    /\ LET v == Head(drv.snap)
           next == [drv EXCEPT !.snap = Rest(@), !.seen = Append(@, v)]
       IN
       IF ~contains_vertex(g, v)
       THEN \* check is evaluated on a handle that is gone: the library
            \* faults, or answers for the empty slot
            /\ hist' = [hist EXCEPT !.stale = TRUE]
            /\ \/ Panic /\ UNCHANGED <<g, ret>>
               \/ /\ drv' = next
                  /\ UNCHANGED <<g, status, stack, ret>>
       ELSE IF VCheck(drv.rule, g, v)
       THEN LET G2 == VRule(drv.rule, g, v)
                eff == Effect(g, G2, {v})
            IN  /\ g' = G2
                /\ drv' = [next EXCEPT !.new_matches = TRUE,
                                       !.got_match = TRUE,
                                       !.hit = @ \cup {v}]
                /\ hist' = [hist EXCEPT !.invoked = TRUE,
                                        !.broke = @ \/ eff.broke,
                                        !.nodel = @ \/ eff.nodel]
                /\ UNCHANGED <<status, stack, ret>>
       ELSE /\ drv' = next
            /\ UNCHANGED <<g, status, stack, ret, hist>>

\* the re-validation looks at the kind only
EdgeValidKindOnly(G, e, edge_type) == e[3] = edge_type

\* the re-validation forgets the target endpoint
EdgeValidSourceOnly(G, e, edge_type) ==
    /\ e[3] = edge_type
    /\ contains_vertex(G, e[1])

\* lines 69-71: the re-validation of a snapshotted triple
EdgeValid(G, e, edge_type) ==
    /\ e[3] = edge_type
    /\ contains_vertex(G, e[1])
    /\ contains_vertex(G, e[2])

\* lines 68-77: one triple of the snapshot
ScanEdge ==
    /\ status = "running"
    /\ drv.pc = "scan" /\ drv.kind = "edge"
    /\ drv.snap # <<>>
    /\ LET e == Head(drv.snap)
           present == e[1] \in g.verts /\ e[2] \in g.verts /\ e[3] = drv.etype
           gone == edge_type_opt(g, e[1], e[2]) # drv.etype
       IN
       IF ~EdgeValid(g, e, drv.etype)
       THEN /\ drv' = [drv EXCEPT !.snap = Tail(@)]
            /\ hist' = [hist EXCEPT !.skipdead =
                            @ \/ (e[3] = drv.etype /\ ~present)]
            /\ UNCHANGED <<g, status, stack, ret>>
       ELSE IF ECheck(drv.rule, g, e[1], e[2])
       THEN LET G2 == ERule(drv.rule, g, e[1], e[2])
                eff == Effect(g, G2, {e[1], e[2]})
            IN  /\ g' = G2
                /\ drv' = [drv EXCEPT !.snap = Tail(@),
                                      !.new_matches = TRUE,
                                      !.got_match = TRUE]
                /\ hist' = [hist EXCEPT !.invoked = TRUE,
                                        !.badcheck = @ \/ ~present,
                                        !.goneedge = @ \/ gone,
                                        !.broke = @ \/ eff.broke,
                                        !.nodel = @ \/ eff.nodel]
                /\ UNCHANGED <<status, stack, ret>>
       ELSE /\ drv' = [drv EXCEPT !.snap = Tail(@)]
            /\ hist' = [hist EXCEPT !.badcheck = @ \/ ~present,
                                    !.goneedge = @ \/ gone]
            /\ UNCHANGED <<g, status, stack, ret>>

\* the break test with > for >=
BreakTestStrict(force, numv, G) == force /\ numv > num_vertices(G)

\* line 48 / 78: force_reduce && numv >= g.num_vertices()
BreakTest(force, numv, G) == force /\ numv >= num_vertices(G)

\* line 38 / 65: the loop test
LoopTest(new_matches) == new_matches

\* the driver returns the flag of the last round
DriverResultLast(d) == d.new_matches

\* line 51 / 81: the value returned
DriverResult(d) == d.got_match

\* lines 48-51 / 78-81: the end of a round: break, go round again, or leave
RoundEnd ==
    /\ status = "running"
    /\ drv.pc = "scan"
    /\ drv.snap = <<>>
    /\ hist' = [hist EXCEPT !.zeroround = ~drv.new_matches]
    /\ IF ~BreakTest(drv.force, drv.numv, g) /\ LoopTest(drv.new_matches)
       THEN /\ drv' = [drv EXCEPT !.pc = "begin"]
            /\ UNCHANGED <<g, status, stack, ret>>
       ELSE /\ drv' = IdleDrv
            /\ ret' = DriverResult(drv)
            /\ status' = IF stack = <<>> THEN "idle" ELSE "running"
            /\ UNCHANGED <<g, stack>>

\* a caller invokes vertex_simp with a check, a rule and force_reduce
CallVertexSimp ==
    /\ status = "idle"
    /\ hist.calls = 0
    /\ \E rule \in VertexRules, force \in BOOLEAN :
          /\ drv' = DriverEntry("vertex", "none", rule, force)
          /\ hist' = StartHist("vertex_simp", rule, force)
    /\ status' = "running"
    /\ UNCHANGED <<g, stack, ret>>

\* a caller invokes edge_simp with an edge kind, a check, a rule and
\* force_reduce
CallEdgeSimp ==
    /\ status = "idle"
    /\ hist.calls = 0
    /\ \E rule \in EdgeRules, et \in {"N", "H"}, force \in BOOLEAN :
          /\ drv' = DriverEntry("edge", et, rule, force)
          /\ hist' = StartHist("edge_simp", rule, force)
    /\ status' = "running"
    /\ UNCHANGED <<g, stack, ret>>

\* a diagram on up to n handles with at most maxE edges of any kinds and
\* at most one marked vertex
InitDriver ==
    /\ \E k \in 0..MaxV :
        \E P \in SUBSET Pairs(k) :
            /\ Cardinality(P) <= MaxEdges
            /\ \E Nn \in SUBSET P :
               \E m \in OneMark(k, {<<"Z", 2>>, <<"Z", 4>>, <<"B", 0>>}) :
                  g = Diagram(MaxV, k, Edges(P, Nn), m)
    /\ status = "idle"
    /\ stack = <<>>
    /\ drv = IdleDrv
    /\ ret = FALSE
    /\ hist = NoHist(g)

NextDriver ==
    \/ CallVertexSimp
    \/ CallEdgeSimp
    \/ RoundBegin
    \/ ScanVertex
    \/ ScanEdge
    \/ RoundEnd

SpecDriver == InitDriver /\ [][NextDriver]_vars

\* the program is sequential and keeps running until it returns or faults
SpecDriverFair == SpecDriver /\ WF_vars(NextDriver)

-----------------------------------------------------------------------------
(* fuse_gadgets *)

RECURSIVE InsertSorted(_, _)
InsertSorted(seq, x) ==
    IF seq = <<>> THEN <<x>>
    ELSE IF x <= Head(seq) THEN <<x>> \o seq
    ELSE <<Head(seq)>> \o InsertSorted(Tail(seq), x)

RECURSIVE sort(_)
sort(seq) ==
    IF seq = <<>> THEN <<>> ELSE InsertSorted(sort(Tail(seq)), Head(seq))

\* lines 139-141: a zero-phase Z vertex of degree 1
IsLeaf(G, v) ==
    /\ vertex_type(G, v) = "Z"
    /\ G.phase[v] = 0
    /\ degree(G, v) = 1

\* line 142: g.neighbors(v).next().unwrap()
HubOf(G, v) == CHOOSE w \in neighbors(G, v) : TRUE

\* the key lists the hub's neighbour n
NhdEntryNeighbour(n, v) == n

\* line 147: nhd.push(v)
NhdEntry(n, v) == v

RECURSIVE NhdPushes(_, _, _)
\* lines 143-148: one push for every Z neighbour n of the hub on a
\* Hadamard edge, other than the leaf
NhdPushes(G, ns, v) ==
    IF ns = <<>> THEN <<>>
    ELSE LET n == Head(ns)
             rest == NhdPushes(G, Tail(ns), v)
         IN  IF vertex_type(G, n) # "Z" \/ edge_type_opt(G, HubOf(G, v), n) # "H"
             THEN rest
             ELSE IF n # v THEN <<NhdEntry(n, v)>> \o rest ELSE rest

\* lines 143-149: the grouping key of the leaf v
GadgetKey(G, v) ==
    sort(NhdPushes(G, SortedSeq(neighbors(G, HubOf(G, v))), v))

\* lines 151-155: append the pair to the entry of its key, or open one
MapPush(map, key, pair) ==
    IF \E i \in 1..Len(map) : map[i].key = key
    THEN [i \in 1..Len(map) |->
            IF map[i].key = key
            THEN [map[i] EXCEPT !.gs = Append(@, pair)] ELSE map[i]]
    ELSE Append(map, [key |-> key, gs |-> <<pair>>])

RECURSIVE ScanGadgets(_, _, _)
\* lines 138-157: the (hub, leaf) pairs, grouped by key
ScanGadgets(G, vs, map) ==
    IF vs = <<>> THEN map
    ELSE LET v == Head(vs) IN
         IF IsLeaf(G, v)
         THEN ScanGadgets(G, Tail(vs),
                          MapPush(map, GadgetKey(G, v), <<HubOf(G, v), v>>))
         ELSE ScanGadgets(G, Tail(vs), map)

gadgets(G) == ScanGadgets(G, vertex_vec(G), <<>>)

\* a group fuses from one pair on
GroupFusesAlways(gs) == Len(gs) >= 1

\* line 161: gs.len() > 1
GroupFuses(gs) == Len(gs) > 1

\* a use of a handle: a fault when the vertex is gone
Touch(st, v) ==
    IF st.fault \/ ~contains_vertex(st.g, v)
    THEN [st EXCEPT !.fault = TRUE] ELSE st

RECURSIVE FuseRest(_, _, _)
\* lines 165-169: for i in 1..gs.len()
FuseRest(st, gs, i) ==
    IF i > Len(gs) \/ st.fault THEN st
    ELSE LET s1 == Touch(st, gs[i][2])
             s2 == IF s1.fault THEN s1
                   ELSE [s1 EXCEPT !.ph = (@ + s1.g.phase[gs[i][2]]) % PhaseMod]
             s3 == Touch(s2, gs[i][1])
             s4 == IF s3.fault THEN s3
                   ELSE [s3 EXCEPT !.g = remove_vertex(@, gs[i][1])]
             s5 == Touch(s4, gs[i][2])
             s6 == IF s5.fault THEN s5
                   ELSE [s5 EXCEPT !.g = remove_vertex(@, gs[i][2])]
         IN  FuseRest(s6, gs, i + 1)

\* lines 161-172: one group
FuseGroup(st, gs) ==
    IF ~GroupFuses(gs) THEN st
    ELSE LET s1 == FuseRest([st EXCEPT !.fused = TRUE, !.ph = 0], gs, 2)
             s2 == Touch(s1, gs[1][2])
         IN  IF s2.fault THEN s2
             ELSE [s2 EXCEPT !.g = add_to_phase(@, gs[1][2], s2.ph)]

RECURSIVE FuseValues(_, _)
\* lines 160-173: for gs in gadgets.values()
FuseValues(st, map) ==
    IF map = <<>> \/ st.fault THEN st
    ELSE FuseValues(FuseGroup(st, Head(map).gs), Tail(map))

\* lines 135-176: the diagram after the call, the value returned, and
\* whether the call faulted on a handle that was gone
fuse_gadgets(G) ==
    FuseValues([g |-> G, fused |-> FALSE, fault |-> FALSE, ph |-> 0],
               gadgets(G))

\* a caller invokes fuse_gadgets
CallFuseGadgets ==
    /\ status = "idle"
    /\ hist.calls < MaxCalls
    /\ LET r == fuse_gadgets(g) IN
          /\ g' = r.g
          /\ hist' = [StartHist("fuse_gadgets", "none", FALSE)
                        EXCEPT !.invoked = r.fused]
          /\ IF r.fault
             THEN Panic /\ UNCHANGED ret
             ELSE /\ ret' = r.fused
                  /\ UNCHANGED <<status, stack, drv>>

\* a diagram on MaxVFuse handles with at most MaxEdgesFuse edges, at most
\* one of them Normal; the lowest handle may carry a phase or be a boundary
\* or an X spider
InitFuse ==
    /\ \E P \in SUBSET Pairs(MaxVFuse) :
            /\ Cardinality(P) <= MaxEdgesFuse
            /\ \E Nn \in {{}} \cup {{e} : e \in P} :
               \E m \in [{1} -> {<<"Z", 0>>, <<"Z", 4>>, <<"B", 0>>, <<"X", 0>>}] :
                  g = Diagram(MaxVFuse, MaxVFuse, Edges(P, Nn), m)
    /\ status = "idle"
    /\ stack = <<>>
    /\ drv = IdleDrv
    /\ ret = FALSE
    /\ hist = NoHist(g)

NextFuse == CallFuseGadgets

SpecFuse == InitFuse /\ [][NextFuse]_vars

-----------------------------------------------------------------------------
(* The named passes and the composite strategies *)

Passes ==
    {"id_simp", "local_comp_simp", "spider_simp", "pivot_simp", "gen_pivot_simp"}

Composites == {"interior_clifford_simp", "clifford_simp", "full_simp"}

\* every pass asks for force_reduce
PassArgsForced(name) ==
    CASE name = "id_simp" ->
            DriverEntry("vertex", "none", "remove_id", TRUE)
      [] name = "local_comp_simp" ->
            DriverEntry("vertex", "none", "local_comp", TRUE)
      [] name = "spider_simp" ->
            DriverEntry("edge", "N", "spider_fusion", TRUE)
      [] name = "pivot_simp" ->
            DriverEntry("edge", "H", "pivot", TRUE)
      [] name = "gen_pivot_simp" ->
            DriverEntry("edge", "H", "gen_pivot", TRUE)

\* lines 84-102: the driver call each named pass makes
PassArgs(name) ==
    CASE name = "id_simp" ->
            DriverEntry("vertex", "none", "remove_id", FALSE)
      [] name = "local_comp_simp" ->
            DriverEntry("vertex", "none", "local_comp", FALSE)
      [] name = "spider_simp" ->
            DriverEntry("edge", "N", "spider_fusion", FALSE)
      [] name = "pivot_simp" ->
            DriverEntry("edge", "H", "pivot", FALSE)
      [] name = "gen_pivot_simp" ->
            DriverEntry("edge", "H", "gen_pivot", FALSE)

\* the chains without their last operand
BodyWithoutLast(fn) ==
    CASE fn = "interior_clifford_simp" ->
            <<"id_simp", "spider_simp", "pivot_simp">>
      [] fn = "clifford_simp" ->
            <<"interior_clifford_simp">>
      [] fn = "full_simp" ->
            <<"clifford_simp">>

\* lines 110-113, 126-127, 182-183: the operands of the || chain of a round
Body(fn) ==
    CASE fn = "interior_clifford_simp" ->
            <<"id_simp", "spider_simp", "pivot_simp", "local_comp_simp">>
      [] fn = "clifford_simp" ->
            <<"interior_clifford_simp", "gen_pivot_simp">>
      [] fn = "full_simp" ->
            <<"clifford_simp", "fuse_gadgets">>

\* the locals of a composite at entry; interior_clifford_simp starts with
\* its prelude (lines 105-106), the others in their loop
Frame(fn, G) ==
    [fn |-> fn,
     pc |-> IF fn = "interior_clifford_simp" THEN "prelude" ELSE "loop",
     idx |-> 1, wait |-> FALSE, got_match |-> FALSE,
     rounds |-> IF fn = "interior_clifford_simp" THEN 0 ELSE 1,
     n0 |-> num_vertices(G), rnv |-> num_vertices(G),
     ran |-> <<>>]

Top == stack[Len(stack)]

SetTop(f) == [stack EXCEPT ![Len(stack)] = f]

InFrame(pc) ==
    /\ status = "running"
    /\ stack # <<>>
    /\ drv.pc = "idle"
    /\ Top.pc = pc

\* line 105: spider_simp(g);
InteriorPrelude ==
    /\ InFrame("prelude") /\ ~Top.wait
    /\ drv' = PassArgs("spider_simp")
    /\ stack' = SetTop([Top EXCEPT !.wait = TRUE])
    /\ UNCHANGED <<g, status, ret, hist>>

\* lines 105-109: the value of spider_simp is dropped; g.x_to_z(); the
\* loop is entered
InteriorXToZ ==
    /\ InFrame("prelude") /\ Top.wait
    /\ g' = x_to_z(g)
    /\ stack' = SetTop([Top EXCEPT !.pc = "loop", !.wait = FALSE, !.idx = 1,
                                   !.rounds = 1,
                                   !.rnv = num_vertices(g')])
    /\ UNCHANGED <<status, drv, ret, hist>>

Callee == Body(Top.fn)[Top.idx]

Called == [Top EXCEPT !.wait = TRUE, !.ran = Append(@, Callee)]

\* a named pass is called as the next operand of the chain
CallPass ==
    /\ InFrame("loop") /\ ~Top.wait
    /\ Callee \in Passes
    /\ drv' = PassArgs(Callee)
    /\ stack' = SetTop(Called)
    /\ UNCHANGED <<g, status, ret, hist>>

\* a composite is called as the next operand of the chain
CallComposite ==
    /\ InFrame("loop") /\ ~Top.wait
    /\ Callee \in Composites
    /\ stack' = Append(SetTop(Called), Frame(Callee, g))
    /\ UNCHANGED <<g, status, drv, ret, hist>>

\* line 183: fuse_gadgets(g) as the second operand of full_simp's chain
CallFuse ==
    /\ InFrame("loop") /\ ~Top.wait
    /\ Callee = "fuse_gadgets"
    /\ LET r == fuse_gadgets(g) IN
          /\ g' = r.g
          /\ hist' = [hist EXCEPT !.invoked = @ \/ r.fused]
          /\ IF r.fault
             THEN Panic /\ UNCHANGED ret
             ELSE /\ ret' = r.fused
                  /\ stack' = SetTop(Called)
                  /\ UNCHANGED <<status, drv>>

\* the chain goes on to its next operand after a true one as well
ChainGoesOnAlways(r, idx, n) == idx < n

\* the chain ends with its first operand
ChainNeverGoesOn(r, idx, n) == FALSE

\* a || b: the next operand is evaluated only when this one was false
ChainGoesOn(r, idx, n) == ~r /\ idx < n

\* the loop goes round for ever
LoopAgainAlways(m) == TRUE

\* lines 109, 123, 181: while m
LoopAgain(m) == m

\* an operand of the chain has returned: go on in the chain, or end the
\* round with m, and then go round again or return got_match
StepDone ==
    /\ InFrame("loop") /\ Top.wait
    /\ IF ChainGoesOn(ret, Top.idx, Len(Body(Top.fn)))
       THEN /\ stack' = SetTop([Top EXCEPT !.idx = @ + 1, !.wait = FALSE])
            /\ UNCHANGED <<g, status, drv, ret, hist>>
       ELSE LET m == ret
                got == Top.got_match \/ m
            IN  /\ hist' = [hist EXCEPT !.flatround =
                              @ \/ (m /\ num_vertices(g) >= Top.rnv)]
                /\ IF LoopAgain(m)
                   THEN /\ stack' = SetTop([Top EXCEPT
                                      !.idx = 1, !.wait = FALSE,
                                      !.got_match = got,
                                      !.rounds = Sat(@),
                                      !.rnv = num_vertices(g),
                                      !.ran = <<>>])
                        /\ UNCHANGED <<g, status, drv, ret>>
                   ELSE /\ stack' = SubSeq(stack, 1, Len(stack) - 1)
                        /\ ret' = got
                        /\ status' = IF Len(stack) = 1 THEN "idle" ELSE "running"
                        /\ UNCHANGED <<g, drv>>

\* a caller invokes one of the composite strategies
CallTop ==
    /\ status = "idle"
    /\ hist.calls < MaxCalls
    /\ \E fn \in Composites :
          /\ stack' = <<Frame(fn, g)>>
          /\ hist' = StartHist(fn, "none", FALSE)
    /\ status' = "running"
    /\ UNCHANGED <<g, drv, ret>>

\* a caller invokes one of the named passes
CallNamedPass ==
    /\ status = "idle"
    /\ hist.calls < MaxCalls
    /\ \E name \in Passes :
          /\ drv' = PassArgs(name)
          /\ hist' = StartHist(name, PassArgs(name).rule, PassArgs(name).force)
    /\ status' = "running"
    /\ UNCHANGED <<g, stack, ret>>

\* the marks of the initial diagrams of these runs: none, one marked vertex
\* (the lowest or the highest handle), or a quarter phase on the two lowest
\* handles
CompMarks(k) ==
    OneMark(k, {<<"Z", 1>>, <<"Z", 2>>, <<"Z", 4>>, <<"B", 0>>, <<"X", 0>>})
    \cup (IF k >= 2 THEN {<<<<"Z", 1>>, <<"Z", 1>>>>} ELSE {})

InitComp ==
    /\ \E k \in 0..MaxVComp :
        \E P \in SUBSET Pairs(k) :
            /\ Cardinality(P) <= MaxEdgesComp
            /\ \E Nn \in SUBSET P :
               \E m \in CompMarks(k) :
                  g = Diagram(MaxVComp, k, Edges(P, Nn), m)
    /\ status = "idle"
    /\ stack = <<>>
    /\ drv = IdleDrv
    /\ ret = FALSE
    /\ hist = NoHist(g)

NextPass ==
    \/ CallNamedPass
    \/ RoundBegin
    \/ ScanVertex
    \/ ScanEdge
    \/ RoundEnd

SpecPass == InitComp /\ [][NextPass]_vars

NextComp ==
    \/ CallTop
    \/ CallFuseGadgets
    \/ InteriorPrelude
    \/ InteriorXToZ
    \/ CallPass
    \/ CallComposite
    \/ CallFuse
    \/ StepDone
    \/ RoundBegin
    \/ ScanVertex
    \/ ScanEdge
    \/ RoundEnd

SpecComp == InitComp /\ [][NextComp]_vars

\* the program is sequential and keeps running until it returns or faults
SpecCompFair == SpecComp /\ WF_vars(NextComp)

-----------------------------------------------------------------------------
(* Properties of the drivers *)

Running == status = "running"

DriverCallDone ==
    status = "idle" /\ hist.op \in {"vertex_simp", "edge_simp"}

\* C2 as stated: every driver call, for any check and any rewrite that
\* obeys the contract (deletes at most what it matched, adds no vertex),
\* terminates, whatever force_reduce is.
C2_TerminatesUnderContract ==
    Running ~> (~Running \/ hist.broke)

\* C2 amended: a driver call terminates, with at most (initial vertex count
\* + 1) rounds, for any check and any rewrite that obeys the contract when
\* force_reduce is set, or when every invocation of the rewrite deletes at
\* least one vertex.
C2_TerminatesWhenReducing ==
    /\ Running ~> (~Running \/ hist.broke \/ (~hist.force /\ hist.nodel))
    /\ [](hist.op \in {"vertex_simp", "edge_simp"}
            /\ ~hist.broke /\ (hist.force \/ ~hist.nodel)
          => hist.rounds <= hist.n0 + 1)

\* a forced call with a rewrite that deletes nothing has stopped after a
\* round that matched
C2_Witness ==
    /\ DriverCallDone
    /\ hist.force /\ hist.invoked /\ hist.nodel /\ ~hist.broke
    /\ hist.rule = "flip_phase"

AtRoundEnd == Running /\ drv.pc = "scan" /\ drv.snap = <<>>

\* C5: with force_reduce = true the round just finished is followed by
\* another round exactly when it had a match and strictly decreased the
\* vertex count.
C5_ForceReduceStops ==
    [][AtRoundEnd /\ drv.force
        => ((drv'.pc = "begin")
              <=> (drv.new_matches /\ num_vertices(g) < drv.numv))]_vars

\* C6: a driver call returns true iff it invoked the rewrite; without
\* force_reduce it ends only after a round with no match; a call that
\* returns false has invoked no rewrite and left the diagram as it was.
C6_ReturnsWhetherMatched ==
    DriverCallDone =>
        /\ ret <=> hist.invoked
        /\ ~hist.force => hist.zeroround
        /\ ~ret => g = hist.g0

C6_Witness ==
    /\ DriverCallDone
    /\ ret /\ ~hist.force /\ hist.rounds >= 2 /\ g # hist.g0

\* C9: edge_simp hands check (and rewrite) only triples of the requested
\* kind whose two endpoints are present; any other triple is skipped: the
\* diagram and the match flags stay as they are and the scan goes on.
C9_EdgeRevalidation ==
    /\ [](~hist.badcheck)
    /\ [][(Running /\ drv.pc = "scan" /\ drv.kind = "edge" /\ drv.snap # <<>>
            /\ ~(/\ Head(drv.snap)[3] = drv.etype
                 /\ Head(drv.snap)[1] \in g.verts
                 /\ Head(drv.snap)[2] \in g.verts))
          => /\ g' = g /\ status' = "running"
             /\ drv' = [drv EXCEPT !.snap = Tail(@)]
             /\ hist'.invoked = hist.invoked]_vars

\* a triple of the requested kind was skipped because an earlier match of
\* the call had deleted one of its endpoints
C9_Witness ==
    /\ hist.op = "edge_simp"
    /\ hist.skipdead /\ hist.invoked /\ ~hist.badcheck

\* C10 as stated: vertex_simp never evaluates check on a handle that is not
\* present, whatever the earlier rewrites of the round deleted.
C10_NeverStaleHandle ==
    hist.op = "vertex_simp" => ~hist.stale

\* C10 amended: vertex_simp evaluates check on every handle of the snapshot
\* without testing its presence; the handle is present when every earlier
\* rewrite of the call deleted at most its own matched vertex and added none.
C10_StaleOnlyAfterBreach ==
    hist.op = "vertex_simp" /\ hist.stale => hist.broke

\* a call whose rewrites each deleted their own vertex has finished without
\* handing check a missing handle
C10_Witness ==
    /\ status = "idle" /\ hist.op = "vertex_simp"
    /\ hist.invoked /\ ~hist.nodel /\ ~hist.broke /\ ~hist.stale
    /\ hist.rounds >= 2

\* C19 as stated: whenever edge_simp hands a pair (s, t) to check or to
\* the rewrite, the diagram holds an edge between s and t of the requested
\* kind at that moment, whatever the earlier rewrites of the round did to
\* the edges.
C19_EdgeStillThere ==
    hist.op = "edge_simp" => ~hist.goneedge

\* C19 amended: edge_simp hands check a triple only with the requested kind
\* in the snapshot and both endpoints present; the edge itself is not looked
\* up again, and a triple whose edge is gone or retyped reaches check only
\* after an earlier rewrite of the call.
C19_EndpointsNotEdge ==
    hist.op = "edge_simp" =>
        /\ ~hist.badcheck
        /\ hist.goneedge => hist.invoked
        /\ (drv.pc = "scan" /\ ~hist.invoked) =>
              \A i \in 1..Len(drv.snap) :
                  edge_type_opt(g, drv.snap[i][1], drv.snap[i][2])
                      = drv.snap[i][3]

\* a rewrite that kept to the contract removed an edge of the snapshot, and
\* check was then handed that triple, both endpoints present
C19_Witness ==
    /\ hist.op = "edge_simp" /\ hist.goneedge
    /\ ~hist.badcheck /\ ~hist.broke /\ hist.invoked
    /\ hist.rule = "cut_source"

\* the handles of a sequence
Handles(seq) == {seq[i] : i \in 1..Len(seq)}

\* C20: while every rewrite of a vertex_simp call has deleted at most its
\* matched vertex and added none, check is never handed a missing handle;
\* in every round the handles passed to check so far and those still to
\* come make up the snapshot, each handle once, the handles still to come
\* are all present, and a handle of the snapshot is missing only if the
\* round has rewritten it.
C20_ContractKeepsHandlesLive ==
    (hist.op = "vertex_simp" /\ ~hist.broke) =>
        /\ ~hist.stale
        /\ drv.pc = "scan" =>
              /\ drv.seen \o drv.snap = drv.snap0
              /\ Cardinality(Handles(drv.snap0)) = Len(drv.snap0)
              /\ Handles(drv.snap) \subseteq g.verts
              /\ (Handles(drv.snap0) \ g.verts) \subseteq drv.hit
              /\ drv.hit \subseteq Handles(drv.seen)

\* a round of a call under the contract is over, the second or a later
\* one: every handle of its snapshot was checked and one that was rewritten
\* is gone
C20_Witness ==
    /\ hist.op = "vertex_simp" /\ ~hist.broke /\ ~hist.nodel
    /\ status = "running" /\ drv.pc = "scan" /\ drv.snap = <<>>
    /\ Len(drv.seen) >= 2 /\ drv.hit # {}
    /\ ~(Handles(drv.snap0) \subseteq g.verts)
    /\ hist.rounds >= 2

-----------------------------------------------------------------------------
(* Properties of fuse_gadgets *)

FuseReturned == status = "idle" /\ hist.op = "fuse_gadgets"

\* a phase gadget of the diagram G: a zero-phase Z leaf of degree 1 on a
\* Hadamard edge
GadgetLeaves(G) ==
    {v \in G.verts :
        /\ G.vtype[v] = "Z" /\ G.phase[v] = 0 /\ degree(G, v) = 1
        /\ \A p \in incident_edges(G, v) : p[2] = "H"}

\* the zero-phase Z vertices of degree 1, however attached
PendantLeaves(G) ==
    {v \in G.verts :
        G.vtype[v] = "Z" /\ G.phase[v] = 0 /\ degree(G, v) = 1}

TheHub(G, v) == CHOOSE w \in G.verts : w \in neighbors(G, v)

\* the signature of the gadget with leaf v: the other Z neighbours of its
\* hub on Hadamard edges
Signature(G, v) ==
    {n \in neighbors(G, TheHub(G, v)) \ {v} :
        G.vtype[n] = "Z" /\ edge_type_opt(G, TheHub(G, v), n) = "H"}

SameSignature(G, v) ==
    {u \in GadgetLeaves(G) : Signature(G, u) = Signature(G, v)}

RECURSIVE SumPhases(_, _)
SumPhases(G, S) ==
    IF S = {} THEN 0
    ELSE LET v == CHOOSE x \in S : TRUE
         IN  (G.phase[v] + SumPhases(G, S \ {v})) % PhaseMod

\* C7: when two or more phase gadgets have hubs with the same signature
\* (empty or not), the call returns true and leaves exactly one pair of
\* them, hub and leaf present, the leaf's phase raised by the phases of the
\* deleted leaves, every other pair deleted.
C7_FusesEqualSignatures ==
    FuseReturned =>
        \A v \in GadgetLeaves(hist.g0) :
            LET grp == SameSignature(hist.g0, v) IN
            Cardinality(grp) >= 2 =>
                /\ ret
                /\ \E k \in grp :
                      /\ k \in g.verts
                      /\ TheHub(hist.g0, k) \in g.verts
                      /\ g.phase[k] =
                            (hist.g0.phase[k]
                               + SumPhases(hist.g0, grp \ {k})) % PhaseMod
                      /\ \A u \in grp \ {k} :
                            /\ u \notin g.verts
                            /\ TheHub(hist.g0, u) \notin g.verts

\* the groups the call builds: two leaves it collects have the same key
SomeGroupOfTwo(G) ==
    \E u, v \in PendantLeaves(G) :
        u # v /\ GadgetKey(G, u) = GadgetKey(G, v)

C8_WitnessFalse ==
    /\ FuseReturned /\ ~ret
    /\ Cardinality(PendantLeaves(hist.g0)) >= 2

-----------------------------------------------------------------------------
(* Properties of the named passes and the composite strategies *)

\* the rewrites applied so far in the call kept the assumption: each deleted
\* a vertex and none added one
RulesReduce == ~hist.nodel /\ ~hist.broke

\* C3: in a call of interior_clifford_simp, clifford_simp or full_simp whose
\* rule applications each delete a vertex and add none, every round of a
\* composite that reports progress has strictly decreased the vertex count,
\* no composite begins more rounds than its initial vertex count plus one,
\* and no driver it calls does either: every loop of the call is bounded, so
\* the call terminates.
C3_CompositesTerminate ==
    (hist.op \in Composites /\ RulesReduce) =>
        /\ ~hist.flatround
        /\ \A i \in 1..Len(stack) : stack[i].rounds <= stack[i].n0 + 1
        /\ drv.rounds <= drv.n0 + 1
        /\ num_vertices(g) <= hist.n0

\* full_simp is in its second round or later, inside clifford_simp and
\* interior_clifford_simp, after progress that removed vertices
C3_Witness ==
    /\ hist.op = "full_simp" /\ RulesReduce /\ hist.invoked
    /\ Len(stack) = 3
    /\ stack[1].rounds >= 2 /\ stack[1].got_match
    /\ Top.fn = "interior_clifford_simp" /\ Top.pc = "loop"
    /\ num_vertices(g) < hist.n0

\* a named pass has returned
PassReturned == status = "idle" /\ hist.op \in Passes

\* C4: a second call of the same named pass right after the first has
\* returned gives false, invokes no rewrite and leaves the diagram as it
\* was; and no named pass calls its driver with force_reduce = true.
C4_PassIsFixpoint ==
    /\ hist.op \in Passes => ~hist.force /\ ~drv.force
    /\ (PassReturned /\ hist.prev = hist.op) =>
            ~ret /\ ~hist.invoked /\ g = hist.g0

\* the second call of a pass has returned, after a first call that had
\* rewritten the diagram
C4_Witness ==
    /\ PassReturned /\ hist.prev = hist.op
    /\ hist.calls = 2 /\ hist.prevret
    /\ ~ret /\ g = hist.g0 /\ hist.rounds = 1

\* the value m of the running round of the innermost composite is settled:
\* an operand of its chain has returned true, or the last one has returned
RoundOver ==
    /\ InFrame("loop") /\ Top.wait
    /\ (ret \/ Top.idx = Len(Body(Top.fn)))

\* C11: when a round of interior_clifford_simp is over, all four passes
\* id_simp, spider_simp, pivot_simp, local_comp_simp have run in it, in
\* that order, whether or not an earlier one matched.
C11_RoundRunsAllFour ==
    (RoundOver /\ Top.fn = "interior_clifford_simp") =>
        Top.ran = <<"id_simp", "spider_simp", "pivot_simp", "local_comp_simp">>

\* C12: when a round of clifford_simp is over, interior_clifford_simp and
\* then gen_pivot_simp have run in it, and when a round of full_simp is
\* over, clifford_simp and then fuse_gadgets have, also when the first of
\* the two reported progress.
C12_RoundRunsBothSteps ==
    /\ (RoundOver /\ Top.fn = "clifford_simp") =>
            Top.ran = <<"interior_clifford_simp", "gen_pivot_simp">>
    /\ (RoundOver /\ Top.fn = "full_simp") =>
            Top.ran = <<"clifford_simp", "fuse_gadgets">>

\* a composite strategy has returned
CompositeReturned == status = "idle" /\ hist.op \in Composites

\* C18: a composite that returns false has applied no rewrite during the
\* call, the initial spider_simp of interior_clifford_simp included.
C18_FalseMeansUntouched ==
    CompositeReturned => (hist.invoked => ret)

\* no vertex of G satisfies the check of the vertex rule
NoVertexMatch(G, rule) ==
    \A v \in G.verts : ~VCheck(rule, G, v)

\* no edge of G of kind et satisfies the check of the edge rule, taken with
\* its endpoints in the order edge_vec lists them
NoEdgeMatch(G, rule, et) ==
    \A e \in G.edges : e[3] = et => ~ECheck(rule, G, e[1], e[2])

InteriorFixpoint(G) ==
    /\ NoVertexMatch(G, "remove_id")
    /\ NoVertexMatch(G, "local_comp")
    /\ NoEdgeMatch(G, "spider_fusion", "N")
    /\ NoEdgeMatch(G, "pivot", "H")

\* C13: when interior_clifford_simp returns, no vertex satisfies the check
\* of identity removal or of local complementation, no Normal edge that of
\* spider fusion and no Hadamard edge that of the pivot; when clifford_simp
\* returns, no Hadamard edge satisfies the generalized-pivot check either.
C13_ReturnsAtFixpoint ==
    /\ (status = "idle" /\ hist.op = "interior_clifford_simp") =>
            InteriorFixpoint(g)
    /\ (status = "idle" /\ hist.op = "clifford_simp") =>
            InteriorFixpoint(g) /\ NoEdgeMatch(g, "gen_pivot", "H")

\* clifford_simp has returned true, after rewrites that removed vertices,
\* on a diagram that still has a Hadamard edge
C13_Witness ==
    /\ status = "idle" /\ hist.op = "clifford_simp" /\ ret
    /\ hist.invoked /\ num_vertices(g) < hist.n0
    /\ \E e \in g.edges : e[3] = "H"

\* the call that has just been made follows a full_simp that returned
AfterFullSimp ==
    /\ hist.prev = "full_simp"
    /\ hist.op \in {"clifford_simp", "fuse_gadgets", "full_simp"}

\* C14: a clifford_simp, a fuse_gadgets or a second full_simp called right
\* after full_simp has returned never changes the diagram, invokes no
\* rewrite, does not fault, and returns false.
C14_FullSimpIsFixpoint ==
    AfterFullSimp =>
        /\ g = hist.g0
        /\ ~hist.invoked
        /\ status # "panicked"
        /\ status = "idle" => ~ret

\* a second full_simp has returned false, without a change, on the diagram
\* a first one had reduced and returned true on
C14_Witness ==
    /\ AfterFullSimp /\ hist.op = "full_simp" /\ status = "idle"
    /\ hist.prevret /\ ~ret /\ g = hist.g0
    /\ g.verts # {}

\* C15: the key under which fuse_gadgets files the pair of a gadget leaf is
\* the sorted list of the other Z neighbours of its hub on Hadamard edges,
\* so two gadgets are filed under one key iff their hubs have the same such
\* neighbours, whichever the leaves are.
C15_KeyIsHubSignature ==
    hist.op = "fuse_gadgets" =>
        \A u, v \in GadgetLeaves(hist.g0) :
            /\ GadgetKey(hist.g0, v) = SortedSeq(Signature(hist.g0, v))
            /\ (GadgetKey(hist.g0, u) = GadgetKey(hist.g0, v))
                  <=> (Signature(hist.g0, u) = Signature(hist.g0, v))

\* the leaves of the phase gadgets proper: on a Hadamard edge, the hub not
\* a boundary
ProperLeaves(G) ==
    {v \in GadgetLeaves(G) : G.vtype[TheHub(G, v)] # "B"}

\* C16: fuse_gadgets deletes only leaves of phase gadgets proper and their
\* hubs; a zero-phase Z vertex of degree 1 on a Normal edge, or on a
\* boundary, is left in place with its phase, and its neighbour is deleted
\* only as the hub of a proper gadget.
C16_OnlyHadamardGadgets ==
    FuseReturned =>
        LET G0 == hist.g0
            hubs == {TheHub(G0, v) : v \in ProperLeaves(G0)}
        IN  /\ (G0.verts \ g.verts) \subseteq (ProperLeaves(G0) \cup hubs)
            /\ \A v \in PendantLeaves(G0) \ ProperLeaves(G0) :
                  v \in g.verts /\ g.phase[v] = G0.phase[v]

\* C17: a fuse_gadgets call uses no handle that is gone (it reads no phase
\* of, deletes and adds a phase to present vertices only), and the first
\* pair of every group it fuses, the one it keeps, is still in the diagram
\* with hub and leaf.
C17_HandlesStayValid ==
    hist.op = "fuse_gadgets" =>
        /\ status # "panicked"
        /\ \A i \in DOMAIN gadgets(hist.g0) :
              LET gs == gadgets(hist.g0)[i].gs IN
              Len(gs) > 1 => gs[1][1] \in g.verts /\ gs[1][2] \in g.verts

====
